---- MODULE Spec2Model ----
(***************************************************************************)
(* A model of rxjs-httpclient: the HttpParams container (update log and    *)
(* lazy init), the HttpRequest value (constructor, clone, urlWithParams)   *)
(* and the HttpInterceptingManager / HttpClient dispatch path.             *)
(*                                                                         *)
(* JavaScript strings are sequences of one-character strings.  An optional *)
(* value is a sequence of length 0 (undefined) or 1.  Objects that the     *)
(* code shares by reference (HttpParams instances, the value arrays held   *)
(* by their maps) live in heaps and are named by their index.              *)
(***************************************************************************)
EXTENDS Integers, Sequences, FiniteSets, TLC

VARIABLES
    objs,            \* heap of HttpParams instances
    arrs,            \* heap of the string[] arrays the maps point to
    derived,         \* history: one record per append / set / delete call
    constructed,     \* history: one record per new HttpParams(options) call
    reqs,            \* HttpRequest instances constructed so far
    clones,          \* one record per HttpRequest.clone call
    interceptorList, \* interceptorsRefMap.get(manager)
    chain,           \* HttpInterceptingManager.chain
    streams,         \* observables returned by request() / handle()
    dispatches,      \* one record per chain.handle(req) invocation
    edits,           \* history: the number of add / remove / removeByIndex calls
    passed,          \* the array passed to the manager's constructor, as its owner holds it
    calls,           \* HttpClient.request(req, options) calls and what they returned
    subscriptions    \* subscriptions to the observables request() returned

paramVars == <<objs, arrs, derived, constructed>>
reqVars == <<reqs, clones>>
chainVars == <<interceptorList, chain, streams, dispatches, edits, passed>>
obsVars == <<calls, subscriptions>>
vars == <<objs, arrs, derived, constructed, reqs, clones, interceptorList, chain, streams,
          dispatches, edits, passed, calls, subscriptions>>

(***************************************************************************)
(* Bounds of the model.                                                    *)
(***************************************************************************)
MaxObjs == 3
MaxReqs == 2
MaxClones == 1
MaxList == 2
MaxStreams == 1
MaxDispatches == 2
MaxEdits == 1

None == <<>>
Some(x) == <<x>>

RECURSIVE Concat(_)
Concat(ss) == IF ss = <<>> THEN <<>> ELSE Head(ss) \o Concat(Tail(ss))

RECURSIVE Join(_, _)
Join(ss, sep) ==
    IF ss = <<>> THEN <<>>
    ELSE IF Len(ss) = 1 THEN ss[1]
    ELSE ss[1] \o sep \o Join(Tail(ss), sep)

\* String.prototype.indexOf(ch) / Array.prototype.indexOf(x), 1-based; 0 is JS's -1.
IndexOf(s, x) ==
    IF \E i \in 1..Len(s) : s[i] = x
    THEN CHOOSE i \in 1..Len(s) : s[i] = x /\ \A j \in 1..(i - 1) : s[j] # x
    ELSE 0

\* Array.prototype.splice(idx, 1) with a 1-based idx inside the array.
Splice1(s, idx) == [i \in 1..(Len(s) - 1) |-> IF i < idx THEN s[i] ELSE s[i + 1]]

(***************************************************************************)
(* JavaScript scalars held by the parameter maps: strings and numbers.     *)
(***************************************************************************)
Str(s) == [t |-> "string", s |-> s]
Num(s) == [t |-> "number", s |-> s]

\* valueToString: `${value}`
valueToString(value) == Str(value.s)

(***************************************************************************)
(* HttpUrlEncodingCodec                                                    *)
(***************************************************************************)
Unreserved == {"a", "b", "x", "y", "z", "1", "2", "9", "-", "_", ".", "!", "~", "*", "'", "(", ")"}

\* encodeURIComponent on one character of the model's alphabet.
encodeURIComponentChar(c) ==
    IF c \in Unreserved THEN <<c>>
    ELSE CASE c = "=" -> <<"%", "3", "D">>
           [] c = "?" -> <<"%", "3", "F">>
           [] c = "&" -> <<"%", "2", "6">>
           [] c = "/" -> <<"%", "2", "F">>
           [] c = "+" -> <<"%", "2", "B">>
           [] c = "%" -> <<"%", "2", "5">>
           [] c = " " -> <<"%", "2", "0">>
           [] c = "#" -> <<"%", "2", "3">>

\* STANDARD_ENCODING_REPLACEMENTS, keyed by the two hex digits.
STANDARD_ENCODING_REPLACEMENTS ==
    [k \in {<<"4", "0">>, <<"3", "A">>, <<"2", "4">>, <<"2", "C">>, <<"3", "B">>,
            <<"2", "B">>, <<"3", "D">>, <<"3", "F">>, <<"2", "F">>} |->
        CASE k = <<"4", "0">> -> "@"
          [] k = <<"3", "A">> -> ":"
          [] k = <<"2", "4">> -> "$"
          [] k = <<"2", "C">> -> ","
          [] k = <<"3", "B">> -> ";"
          [] k = <<"2", "B">> -> "+"
          [] k = <<"3", "D">> -> "="
          [] k = <<"3", "F">> -> "?"
          [] k = <<"2", "F">> -> "/"]

Digits == {"0", "1", "2", "3", "4", "5", "6", "7", "8", "9"}
HexDigits == Digits \cup {"A", "B", "C", "D", "E", "F", "a", "b", "c", "d", "e", "f"}

\* .replace(/%(\d[a-f0-9])/gi, (s, t) => REPLACEMENTS[t] ?? s) over a whole string.
RECURSIVE replaceStandard(_)
replaceStandard(s) ==
    IF s = <<>> THEN <<>>
    ELSE IF Len(s) >= 3 /\ s[1] = "%" /\ s[2] \in Digits /\ s[3] \in HexDigits
         THEN LET t == <<s[2], s[3]>>
                  rest == replaceStandard(SubSeq(s, 4, Len(s)))
              IN  IF t \in DOMAIN STANDARD_ENCODING_REPLACEMENTS
                  THEN <<STANDARD_ENCODING_REPLACEMENTS[t]>> \o rest
                  ELSE SubSeq(s, 1, 3) \o rest
         ELSE <<s[1]>> \o replaceStandard(Tail(s))

standardEncoding(v) ==
    replaceStandard(Concat([i \in 1..Len(v) |-> encodeURIComponentChar(v[i])]))

encodeKey(key) == standardEncoding(key)
encodeValue(value) == standardEncoding(value)

\* decodeURIComponent, with the escapes of the model's alphabet: [ok, s], where ok is
\* FALSE for the URIError a '%' not followed by two hex digits raises.
RECURSIVE decodeURIComponent(_)
decodeURIComponent(s) ==
    IF s = <<>> THEN [ok |-> TRUE, s |-> <<>>]
    ELSE IF s[1] # "%"
         THEN LET rest == decodeURIComponent(Tail(s))
              IN  [ok |-> rest.ok, s |-> <<s[1]>> \o rest.s]
         ELSE IF Len(s) >= 3 /\ s[2] \in HexDigits /\ s[3] \in HexDigits
              THEN LET rest == decodeURIComponent(SubSeq(s, 4, Len(s)))
                       t == <<s[2], s[3]>>
                       c == CASE t = <<"3", "D">> -> "="
                              [] t = <<"3", "F">> -> "?"
                              [] t = <<"2", "6">> -> "&"
                              [] t = <<"2", "F">> -> "/"
                              [] t = <<"2", "B">> -> "+"
                              [] t = <<"2", "5">> -> "%"
                              [] t = <<"2", "0">> -> " "
                              [] t = <<"2", "3">> -> "#"
                   IN  [ok |-> rest.ok, s |-> <<c>> \o rest.s]
              ELSE [ok |-> FALSE, s |-> <<>>]

decodeKey(key) == decodeURIComponent(key)
decodeValue(value) == decodeURIComponent(value)

\* String.prototype.split(sep) for a one-character sep.
RECURSIVE Split(_, _)
Split(s, sep) ==
    LET idx == IndexOf(s, sep)
    IN  IF idx = 0 THEN <<s>>
        ELSE <<SubSeq(s, 1, idx - 1)>> \o Split(SubSeq(s, idx + 1, Len(s)), sep)

(***************************************************************************)
(* HttpParams.  A heap h is [objs |-> ..., arrs |-> ...].  An instance is  *)
(*   [mapNull, map, cloneFrom, updates]                                    *)
(* where map is the Map's entries in insertion order, each                 *)
(* [key |-> string, arr |-> index into arrs], cloneFrom is an index into   *)
(* objs or 0 for null, and updates is the Update[] (null is <<>>: the code *)
(* reads updates only as `updates ?? []` or when cloneFrom is not null).   *)
(***************************************************************************)
Update(param, value, op) == [param |-> param, value |-> value, op |-> op]

MapHas(m, k) == \E i \in 1..Len(m) : m[i].key = k
\* Map.get: the array's index, 0 for undefined.
MapGet(m, k) == IF MapHas(m, k) THEN m[CHOOSE i \in 1..Len(m) : m[i].key = k].arr ELSE 0
\* Map.set keeps the position of an existing key and appends a new one.
MapSet(m, k, a) ==
    IF MapHas(m, k)
    THEN [i \in 1..Len(m) |-> IF m[i].key = k THEN [key |-> k, arr |-> a] ELSE m[i]]
    ELSE Append(m, [key |-> k, arr |-> a])
MapDelete(m, k) == SelectSeq(m, LAMBDA e : e.key # k)
MapKeys(m) == [i \in 1..Len(m) |-> m[i].key]

\* One iteration of init's updates.forEach on st = [map, arrs].
applyUpdate(st, update) ==
    LET cur == MapGet(st.map, update.param)
    IN  CASE update.op = "a" ->
               IF cur # 0
               THEN [map |-> MapSet(st.map, update.param, cur),
                     arrs |-> [st.arrs EXCEPT ![cur] = Append(@, valueToString(update.value[1]))]]
               ELSE [map |-> MapSet(st.map, update.param, Len(st.arrs) + 1),
                     arrs |-> Append(st.arrs, <<valueToString(update.value[1])>>)]
          [] update.op = "s" ->
               [map |-> MapSet(st.map, update.param, Len(st.arrs) + 1),
                arrs |-> Append(st.arrs, <<valueToString(update.value[1])>>)]
          [] update.op = "d" ->
               IF update.value # None
               THEN IF cur = 0
                    THEN \* base is a fresh [] that is never stored: map.delete of an absent key
                         [map |-> MapDelete(st.map, update.param), arrs |-> st.arrs]
                    ELSE LET idx == IndexOf(st.arrs[cur], valueToString(update.value[1]))
                             base == IF idx # 0 THEN Splice1(st.arrs[cur], idx) ELSE st.arrs[cur]
                             arrs2 == [st.arrs EXCEPT ![cur] = base]
                         IN  IF Len(base) > 0
                             THEN [map |-> MapSet(st.map, update.param, cur), arrs |-> arrs2]
                             ELSE [map |-> MapDelete(st.map, update.param), arrs |-> arrs2]
               ELSE [map |-> MapDelete(st.map, update.param), arrs |-> st.arrs]

RECURSIVE replay(_, _)
replay(st, updates) ==
    IF updates = <<>> THEN st ELSE replay(applyUpdate(st, Head(updates)), Tail(updates))

RECURSIVE copyKeys(_, _)
\* cloneFrom.keys().forEach(key => this.map.set(key, cloneFrom.map.get(key)))
copyKeys(m, src) ==
    IF src = <<>> THEN m ELSE copyKeys(MapSet(m, Head(src).key, Head(src).arr), Tail(src))

RECURSIVE init(_, _)
\* HttpParams.init on instance c of heap h; the heap afterwards.
init(h, c) ==
    LET o == h.objs[c]
        m0 == IF o.mapNull THEN <<>> ELSE o.map
        h1 == [h EXCEPT !.objs[c].mapNull = FALSE, !.objs[c].map = m0]
    IN  IF o.cloneFrom = 0 THEN h1
        ELSE LET h2 == init(h1, o.cloneFrom)
                 st == replay([map |-> copyKeys(m0, h2.objs[o.cloneFrom].map),
                               arrs |-> h2.arrs], o.updates)
             IN  [objs |-> [h2.objs EXCEPT ![c] =
                              [mapNull |-> FALSE, map |-> st.map, cloneFrom |-> 0,
                               updates |-> <<>>]],
                  arrs |-> st.arrs]

\* HttpParams.clone(update?): the new instance (appended to the heap by the caller).
clone(o, self, update) ==
    [mapNull |-> TRUE, map |-> <<>>,
     cloneFrom |-> IF o.cloneFrom # 0 THEN o.cloneFrom ELSE self,
     updates |-> o.updates \o update]

\* new HttpParams({fromObject}): fromObject is a sequence of <<key, values>>.
RECURSIVE fromObjectHeap(_, _, _)
fromObjectHeap(h, c, entries) ==
    IF entries = <<>> THEN h
    ELSE fromObjectHeap(
            [objs |-> [h.objs EXCEPT ![c].map = MapSet(@, Head(entries)[1], Len(h.arrs) + 1)],
             arrs |-> Append(h.arrs, Head(entries)[2])],
            c, Tail(entries))

\* new HttpParams(options) appended to heap h; options.fromObject is None or Some(entries).
newParams(h, fromObject) ==
    LET c == Len(h.objs) + 1
        blank == [mapNull |-> fromObject = None, map |-> <<>>, cloneFrom |-> 0, updates |-> <<>>]
        h1 == [objs |-> Append(h.objs, blank), arrs |-> h.arrs]
    IN  IF fromObject = None THEN h1 ELSE fromObjectHeap(h1, c, fromObject[1])

\* One iteration of paramParser's params.forEach on st = [map, arrs, ok].
parseParam(st, param) ==
    LET eqIdx == IndexOf(param, "=")
        key == IF eqIdx = 0 THEN decodeKey(param) ELSE decodeKey(SubSeq(param, 1, eqIdx - 1))
        val == IF eqIdx = 0 THEN [ok |-> TRUE, s |-> <<>>]
               ELSE decodeValue(SubSeq(param, eqIdx + 1, Len(param)))
        list == MapGet(st.map, key.s)
    IN  IF ~st.ok \/ ~key.ok \/ ~val.ok THEN [st EXCEPT !.ok = FALSE]
        ELSE IF list # 0
             THEN [map |-> MapSet(st.map, key.s, list),
                   arrs |-> [st.arrs EXCEPT ![list] = Append(@, Str(val.s))],
                   ok |-> TRUE]
             ELSE [map |-> MapSet(st.map, key.s, Len(st.arrs) + 1),
                   arrs |-> Append(st.arrs, <<Str(val.s)>>),
                   ok |-> TRUE]

RECURSIVE parseParams(_, _)
parseParams(st, params) ==
    IF params = <<>> THEN st ELSE parseParams(parseParam(st, Head(params)), Tail(params))

\* The mutant of stripQuestionMark: every '?' is removed, not only a leading one.
stripEveryQuestionMark(rawParams) == SelectSeq(rawParams, LAMBDA ch : ch # "?")

\* rawParams.replace(/^\?/, "")
stripQuestionMark(rawParams) ==
    IF rawParams # <<>> /\ rawParams[1] = "?" THEN Tail(rawParams) ELSE rawParams

\* paramParser(rawParams, codec) with the arrays it allocates on arrs0: [map, arrs, ok].
paramParser(rawParams, arrs0) ==
    IF Len(rawParams) > 0
    THEN parseParams([map |-> <<>>, arrs |-> arrs0, ok |-> TRUE],
                     Split(stripQuestionMark(rawParams), "&"))
    ELSE [map |-> <<>>, arrs |-> arrs0, ok |-> TRUE]

\* new HttpParams(options) on heap h, options = [fromString, fromObject], each None or
\* Some: the heap afterwards and what the constructor threw ("" when it returned).
HttpParams(h, options) ==
    IF options.fromString # None /\ options.fromString[1] # <<>>
    THEN IF options.fromObject # None
         THEN [h |-> h, threw |-> "Error"]
         ELSE LET parsed == paramParser(options.fromString[1], h.arrs)
              IN  IF parsed.ok
                  THEN [h |-> [objs |-> Append(h.objs, [mapNull |-> FALSE, map |-> parsed.map,
                                                        cloneFrom |-> 0, updates |-> <<>>]),
                               arrs |-> parsed.arrs],
                        threw |-> ""]
                  ELSE [h |-> h, threw |-> "URIError"]
    ELSE [h |-> newParams(h, options.fromObject), threw |-> ""]

\* The reads, on the heap as init left it.
has(h, c, param) == MapHas(h.objs[c].map, param)
getAll(h, c, param) ==
    LET a == MapGet(h.objs[c].map, param) IN IF a = 0 THEN None ELSE Some(h.arrs[a])
get(h, c, param) ==
    LET a == MapGet(h.objs[c].map, param) IN IF a = 0 THEN None ELSE Some(h.arrs[a][1])
keys(h, c) == MapKeys(h.objs[c].map)

\* HttpParams.toString on the heap as init left it.
toString(h, c) ==
    LET m == h.objs[c].map
        perKey == [i \in 1..Len(m) |->
                     LET eKey == encodeKey(m[i].key)
                         vals == h.arrs[m[i].arr]
                     IN  Join([j \in 1..Len(vals) |-> eKey \o <<"=">> \o encodeValue(vals[j].s)],
                              <<"&">>)]
    IN  Join(SelectSeq(perKey, LAMBDA p : p # <<>>), <<"&">>)

Heap == [objs |-> objs, arrs |-> arrs]

Keys == {<<"a">>, <<"b">>}
\* Every parameter name of the model: Keys, and the "z" of the requests' params.
ParamNames == Keys \cup {<<"z">>}
Values == {Str(<<"1">>), Str(<<"2">>)}
\* delete(param, value?) also takes a number.
DeleteValues == Values \cup {Num(<<"1">>)}

\* The fromObject arguments the roots are constructed from.
FromObjects ==
    { None,
      Some(<<>>),
      Some(<< <<<<"a">>, <<Str(<<"1">>)>>>> >>),
      Some(<< <<<<"a">>, <<Str(<<"1">>), Str(<<"2">>)>>>>, <<<<"b">>, <<Str(<<"1">>)>>>> >>),
      Some(<< <<<<"b">>, <<Num(<<"1">>)>>>> >>) }

(***************************************************************************)
(* What the reads of instance c return on heap h once init() has run on c. *)
(***************************************************************************)
Contents(h, c) == [keys |-> keys(h, c), all |-> [p \in ParamNames |-> getAll(h, c, p)]]
\* What reading c now would return.
View(c) == Contents(init(Heap, c), c)

Resolved(c) == ~objs[c].mapNull /\ objs[c].cloneFrom = 0

EmptyHeap == [objs |-> <<>>, arrs |-> <<>>]

ChainIdle ==
    /\ interceptorList = <<>>
    /\ passed = [given |-> FALSE, items |-> <<>>, shared |-> FALSE]
    /\ chain = None
    /\ streams = <<>>
    /\ dispatches = <<>>
    /\ edits = 0

ReqIdle ==
    /\ reqs = <<>>
    /\ clones = <<>>

ObsIdle ==
    /\ calls = <<>>
    /\ subscriptions = <<>>

InitParams ==
    /\ \E fo \in FromObjects :
          LET h == newParams(EmptyHeap, fo) IN objs = h.objs /\ arrs = h.arrs
    /\ derived = <<>>
    /\ constructed = <<>>
    /\ ReqIdle
    /\ ObsIdle
    /\ ChainIdle

\* append / set / delete: clone({param, value, op}); the receiver is not resolved.
\* The derived record is history: the receiver, the update, the container returned
\* and what the receiver's reads returned when the call was made.
Derive(c, update) ==
    /\ Len(objs) < MaxObjs
    /\ objs' = Append(objs, clone(objs[c], c, <<update>>))
    /\ arrs' = arrs
    /\ derived' = Append(derived, [recv |-> c, update |-> update, n |-> Len(objs) + 1,
                                   at |-> View(c)])
    /\ UNCHANGED <<constructed, reqVars, chainVars, obsVars>>

ParamsAppend(c, param, value) == Derive(c, Update(param, Some(value), "a"))
ParamsSet(c, param, value) == Derive(c, Update(param, Some(value), "s"))
ParamsDelete(c, param, value) == Derive(c, Update(param, value, "d"))

\* has / get / getAll / keys / toString: each runs init() and returns.
ParamsRead(c) ==
    /\ LET h == init(Heap, c) IN objs' = h.objs /\ arrs' = h.arrs
    /\ UNCHANGED <<derived, constructed, reqVars, chainVars, obsVars>>

NextParams ==
    \/ \E c \in 1..Len(objs), k \in Keys, v \in Values : ParamsAppend(c, k, v)
    \/ \E c \in 1..Len(objs), k \in Keys, v \in Values : ParamsSet(c, k, v)
    \/ \E c \in 1..Len(objs), k \in Keys, v \in {None} \cup {Some(x) : x \in DeleteValues} :
          ParamsDelete(c, k, v)
    \/ \E c \in 1..Len(objs) : ParamsRead(c)

SpecParams == InitParams /\ [][NextParams]_vars

(***************************************************************************)
(* Construction from options given by a caller, and from the string        *)
(* another container serializes to.                                        *)
(***************************************************************************)
MaxRaw == 3

\* The pieces raw query strings are made of; a lone '%' is never followed by two hex
\* digits, so a string that holds one is not a valid query string.
RawTokens ==
    {<<"y">>, <<"z">>, <<"=">>, <<"&">>, <<"?">>, <<"%", "3", "D">>, <<"%", "2", "6">>, <<"%">>}

RawStrings ==
    {Concat(ts) : ts \in UNION {[1..n -> RawTokens] : n \in 0..MaxRaw}}
    \cup {<<"a", "=", "1", "&", "a", "=", "2", "&", "b">>}

ParamsOptions ==
    { [fromString |-> fs, fromObject |-> fo] :
        fs \in {None} \cup {Some(raw) : raw \in RawStrings},
        fo \in {None, Some(<<>>), Some(<< <<<<"a">>, <<Str(<<"1">>)>>>> >>)} }

\* The key-to-values mapping instance c holds on heap h.
MappingOf(h, c) ==
    LET m == h.objs[c].map
    IN  [k \in {m[i].key : i \in 1..Len(m)} |-> h.arrs[MapGet(m, k)]]

\* The constructed record is history: the options, what the constructor threw, the
\* instance constructed (0 when it threw), the instance whose toString() gave
\* fromString (0 for a caller's string) and the mapping the new instance holds.
Constructed(options, c, src) ==
    [options |-> options, threw |-> c.threw,
     n |-> IF c.threw = "" THEN Len(c.h.objs) ELSE 0,
     src |-> src,
     mapping |-> IF c.threw = "" THEN MappingOf(c.h, Len(c.h.objs)) ELSE <<>>]

InitParse ==
    /\ objs = <<>> /\ arrs = <<>>
    /\ constructed = <<>>
    /\ derived = <<>>
    /\ ReqIdle
    /\ ObsIdle
    /\ ChainIdle

\* new HttpParams(options) by a caller: the first container of a behaviour.
Construct(options) ==
    /\ constructed = <<>>
    /\ LET c == HttpParams(Heap, options)
       IN  /\ objs' = c.h.objs
           /\ arrs' = c.h.arrs
           /\ constructed' = <<Constructed(options, c, 0)>>
    /\ UNCHANGED <<derived, reqVars, chainVars, obsVars>>

\* new HttpParams({fromString: objs[c].toString()})
Reparse(c) ==
    /\ Len(objs) < MaxObjs
    /\ LET h == init(Heap, c)
           options == [fromString |-> Some(toString(h, c)), fromObject |-> None]
           n == HttpParams(h, options)
       IN  /\ objs' = n.h.objs
           /\ arrs' = n.h.arrs
           /\ constructed' = Append(constructed, Constructed(options, n, c))
    /\ UNCHANGED <<derived, reqVars, chainVars, obsVars>>

NextParse ==
    \/ \E options \in ParamsOptions : Construct(options)
    \/ \E c \in 1..Len(objs) : Reparse(c)
    \/ \E c \in 1..Len(objs) : ParamsRead(c)

SpecParse == InitParse /\ [][NextParse]_vars


(***************************************************************************)
(* HttpRequest.  A request is a record of its fields; params is an index   *)
(* into objs; url and urlWithParams are optional strings (the field is     *)
(* undefined when nothing was assigned to it); body is "null", "undefined" *)
(* or the kind of value it holds.  ctorUrl, ctorParams and ctorBody are    *)
(* history: the constructor's options.url, the string its                  *)
(* params.toString() gave and its options.body.                            *)
(***************************************************************************)
\* HttpHeaders is imported from ./HttpHeaders: headers are their entries.
HeadersClone(headers) == headers
HeadersSet(headers, name, value) ==
    IF \E i \in 1..Len(headers) : headers[i][1] = name
    THEN [i \in 1..Len(headers) |-> IF headers[i][1] = name THEN <<name, value>> ELSE headers[i]]
    ELSE Append(headers, <<name, value>>)

\* The mutant of mightHaveBody: the JSONP case is missing from the switch.
mightHaveBodyNoJsonp(method) == method \notin {"DELETE", "GET", "HEAD", "OPTIONS"}

mightHaveBody(method) == method \notin {"DELETE", "GET", "HEAD", "OPTIONS", "JSONP"}

\* The mutant of separator: the test for a trailing '?' is off by one.
separatorOffByOne(url) ==
    LET qIdx == IndexOf(url, "?")
    IN  IF qIdx = 0 THEN <<"?">> ELSE IF qIdx - 1 < Len(url) THEN <<"&">> ELSE <<>>

\* const sep = qIdx === -1 ? "?" : qIdx < url.length - 1 ? "&" : "";  (qIdx is 0-based)
separator(url) ==
    LET qIdx == IndexOf(url, "?")
    IN  IF qIdx = 0 THEN <<"?">> ELSE IF qIdx - 1 < Len(url) - 1 THEN <<"&">> ELSE <<>>

\* new HttpRequest(options) on heap h: the heap afterwards, whether the constructor
\* returned (url.indexOf throws a TypeError when url is undefined), and the request.
\* A request's serialized and detected are history: what each serializeBody() and
\* detectContentTypeHeader() call on it returned or threw.
HttpRequest(h, options) ==
    LET hasParams == options.params # None
        \* this.params = options.params?.clone(), or new HttpParams()
        h1 == IF hasParams
              THEN [h EXCEPT !.objs = Append(@, clone(h.objs[options.params[1]],
                                                      options.params[1], <<>>))]
              ELSE newParams(h, None)
        pc == Len(h1.objs)
        h2 == IF hasParams THEN init(h1, pc) ELSE h1
        params == IF hasParams THEN toString(h2, pc) ELSE <<>>
        throws == params # <<>> /\ options.url = None
    IN  [h |-> h2,
         ok |-> ~throws,
         r |-> [method |-> options.method,
                url |-> None,
                body |-> IF mightHaveBody(options.method)
                         THEN (IF options.body = None THEN "undefined" ELSE options.body[1])
                         ELSE "null",
                reportProgress |-> options.reportProgress = Some(TRUE),
                withCredentials |-> options.withCredentials = Some(TRUE),
                responseType |-> IF options.responseType = None THEN "json"
                                 ELSE options.responseType[1],
                context |-> IF options.context = None THEN "new HttpContext()"
                            ELSE options.context[1],
                headers |-> IF options.headers = None THEN <<>>
                            ELSE HeadersClone(options.headers[1]),
                params |-> pc,
                urlWithParams |-> IF params = <<>> \/ throws THEN options.url
                                  ELSE Some(options.url[1] \o separator(options.url[1]) \o params),
                ctorUrl |-> options.url,
                ctorParams |-> params,
                ctorBody |-> options.body,
                serialized |-> <<>>,
                detected |-> <<>>]]

RECURSIVE setAll(_, _, _)
\* Object.keys(setParams).reduce((params, param) => params.set(param, setParams[param]), params)
\* on heap h: the heap with one new instance per entry; the last one is the result.
setAll(h, c, entries) ==
    IF entries = <<>> THEN [h |-> h, c |-> c]
    ELSE setAll([h EXCEPT !.objs = Append(@, clone(h.objs[c], c,
                        <<Update(Head(entries)[1], Some(Str(Head(entries)[2])), "s")>>))],
                Len(h.objs) + 1, Tail(entries))

RECURSIVE setAllHeaders(_, _)
setAllHeaders(headers, entries) ==
    IF entries = <<>> THEN headers
    ELSE setAllHeaders(HeadersSet(headers, Head(entries)[1], Head(entries)[2]), Tail(entries))

\* HttpRequest.clone(update) of request r: the options it passes to the constructor,
\* and the heap after the params.set calls.
cloneOptions(h, r, update) ==
    LET base == IF update.params # None THEN update.params[1] ELSE r.params
        sp == IF update.setParams # None THEN setAll(h, base, update.setParams[1])
              ELSE [h |-> h, c |-> base]
        headers0 == IF update.headers # None THEN update.headers[1] ELSE r.headers
        body == IF update.body # None THEN update.body[1] ELSE r.body
    IN  [h |-> sp.h,
         options |->
            [method |-> IF update.method # None THEN update.method[1] ELSE r.method,
             url |-> IF update.url # None /\ update.url[1] # <<>> THEN update.url ELSE r.url,
             body |-> IF body = "undefined" THEN None ELSE Some(body),
             params |-> Some(sp.c),
             headers |-> Some(IF update.setHeaders # None
                              THEN setAllHeaders(headers0, update.setHeaders[1])
                              ELSE headers0),
             context |-> IF update.context # None THEN update.context ELSE Some(r.context),
             reportProgress |-> IF update.reportProgress # None THEN update.reportProgress
                                ELSE Some(r.reportProgress),
             responseType |-> IF update.responseType # None THEN update.responseType
                              ELSE Some(r.responseType),
             withCredentials |-> IF update.withCredentials # None THEN update.withCredentials
                                 ELSE Some(r.withCredentials)]]

Chars(str) ==
    CASE str = "/x" -> <<"/", "x">>
      [] str = "/y" -> <<"/", "y">>
      [] str = "/x?" -> <<"/", "x", "?">>
      [] str = "/x?y=1" -> <<"/", "x", "?", "y", "=", "1">>
      [] str = "/x?y?" -> <<"/", "x", "?", "y", "?">>
      [] str = "/x?y=1&z=2" -> <<"/", "x", "?", "y", "=", "1", "&", "z", "=", "2">>

Urls == {Chars("/x"), Chars("/x?"), Chars("/x?y=1"), Chars("/x?y?")}

\* The remaining options of the constructor, left out or all given.
Plain ==
    [body |-> None, headers |-> None, context |-> None, reportProgress |-> None,
     responseType |-> None, withCredentials |-> None]
Given ==
    [body |-> Some("string"), headers |-> Some(<< <<"h", "1">> >>), context |-> Some("ctx"),
     reportProgress |-> Some(TRUE), responseType |-> Some("text"),
     withCredentials |-> Some(TRUE)]

\* Every url with the root instance as params; without params, where the url is taken
\* as it is, one url.
RequestInits ==
    { [method |-> m, url |-> Some(up[1]), body |-> o.body, params |-> up[2],
       headers |-> o.headers, context |-> o.context, reportProgress |-> o.reportProgress,
       responseType |-> o.responseType, withCredentials |-> o.withCredentials] :
      m \in {"GET", "POST"},
      up \in (Urls \X {Some(1)}) \cup {<<Chars("/x"), None>>},
      o \in {Plain, Given} }

NoUpdate ==
    [method |-> None, url |-> None, body |-> None, params |-> None, headers |-> None,
     setHeaders |-> None, setParams |-> None, context |-> None, reportProgress |-> None,
     responseType |-> None, withCredentials |-> None]

RequestUpdates ==
    { NoUpdate,
      [NoUpdate EXCEPT !.url = Some(Chars("/y"))],
      [NoUpdate EXCEPT !.method = Some("POST"), !.body = Some("object")],
      [NoUpdate EXCEPT !.setParams = Some(<< <<<<"a">>, <<"9">>>> >>)],
      [NoUpdate EXCEPT !.setParams = Some(<< <<<<"a">>, <<"9">>>>, <<<<"z">>, <<"9">>>> >>),
                       !.url = Some(Chars("/y"))],
      [NoUpdate EXCEPT !.params = Some(1), !.url = Some(Chars("/x?"))],
      [NoUpdate EXCEPT !.setHeaders = Some(<< <<"h", "2">> >>), !.responseType = Some("blob"),
                       !.reportProgress = Some(FALSE), !.context = Some("ctx2")] }

InitRequest ==
    /\ \E fo \in { Some(<< <<<<"z">>, <<Num(<<"2">>)>>>> >>),
                   Some(<< <<<<"b">>, <<>>>> >>),
                   Some(<< <<<<"a">>, <<Str(<<"1">>), Str(<<"2">>)>>>>, <<<<"b">>, <<>>>> >>) } :
          LET h == newParams(EmptyHeap, fo) IN objs = h.objs /\ arrs = h.arrs
    /\ derived = <<>>
    /\ constructed = <<>>
    /\ ReqIdle
    /\ ObsIdle
    /\ ChainIdle

\* new HttpRequest(options) by a caller.
NewRequest(options) ==
    /\ Len(reqs) < MaxReqs
    /\ LET c == HttpRequest(Heap, options)
       IN  /\ objs' = c.h.objs
           /\ arrs' = c.h.arrs
           /\ reqs' = IF c.ok THEN Append(reqs, c.r) ELSE reqs
    /\ UNCHANGED <<derived, constructed, clones, chainVars, obsVars>>

\* reqs[r].clone(update).  The clones record is history: the update, what the reads
\* of the source's params returned before the call, and the request returned (ok) or
\* not (a TypeError thrown out of the constructor).
CloneRequest(r, update) ==
    /\ Len(reqs) < MaxReqs
    /\ Len(clones) < MaxClones
    /\ LET co == cloneOptions(Heap, reqs[r], update)
           c == HttpRequest(co.h, co.options)
       IN  /\ objs' = c.h.objs
           /\ arrs' = c.h.arrs
           /\ reqs' = IF c.ok THEN Append(reqs, c.r) ELSE reqs
           /\ clones' = Append(clones,
                 [src |-> r, update |-> update, ok |-> c.ok,
                  result |-> IF c.ok THEN Len(reqs) + 1 ELSE 0,
                  srcParams |-> Contents(init(Heap, reqs[r].params), reqs[r].params)])
    /\ UNCHANGED <<derived, constructed, chainVars, obsVars>>

NextRequest ==
    \/ \E options \in RequestInits : NewRequest(options)
    \/ \E r \in 1..Len(reqs), update \in RequestUpdates : CloneRequest(r, update)

SpecRequest == InitRequest /\ [][NextRequest]_vars

(***************************************************************************)
(* A request built from a container that its caller keeps using: the       *)
(* caller derives containers from it and reads them, before and after the  *)
(* one request is constructed.                                             *)
(***************************************************************************)
\* The request is built with the root instance as params, or without params.
HeldInits ==
    { [method |-> "GET", url |-> Some(Chars("/x")), body |-> None, params |-> p,
       headers |-> None, context |-> None, reportProgress |-> None,
       responseType |-> None, withCredentials |-> None] : p \in {None, Some(1)} }

NextHeld ==
    \/ \E options \in HeldInits : reqs = <<>> /\ NewRequest(options)
    \/ \E c \in 1..Len(objs), k \in Keys, v \in Values : ParamsAppend(c, k, v)
    \/ \E c \in 1..Len(objs), k \in Keys, v \in Values : ParamsSet(c, k, v)
    \/ \E c \in 1..Len(objs), k \in Keys, v \in {None} \cup {Some(x) : x \in DeleteValues} :
          ParamsDelete(c, k, v)
    \/ \E c \in 1..Len(objs) : ParamsRead(c)

SpecHeld == InitRequest /\ [][NextHeld]_vars

(***************************************************************************)
(* The same two operations over every HttpMethod, with and without a body, *)
(* and over the updates of clone that touch method and body.               *)
(***************************************************************************)
HttpMethod == {"GET", "POST", "PUT", "DELETE", "JSONP"}
\* The enum's members and the other method strings mightHaveBody tells apart.
Methods == HttpMethod \cup {"HEAD", "OPTIONS"}

MethodInits ==
    { [method |-> m, url |-> Some(Chars("/x")), body |-> b, params |-> None,
       headers |-> None, context |-> None, reportProgress |-> None,
       responseType |-> None, withCredentials |-> None] :
      m \in Methods, b \in {None, Some("string")} }

MethodUpdates ==
    { NoUpdate,
      [NoUpdate EXCEPT !.body = Some("object")],
      [NoUpdate EXCEPT !.body = Some("null")] }
    \cup { [NoUpdate EXCEPT !.method = Some(m)] : m \in Methods }
    \cup { [NoUpdate EXCEPT !.method = Some(m), !.body = Some("object")] : m \in Methods }

InitMethods ==
    /\ LET h == newParams(EmptyHeap, None) IN objs = h.objs /\ arrs = h.arrs
    /\ derived = <<>>
    /\ constructed = <<>>
    /\ ReqIdle
    /\ ObsIdle
    /\ ChainIdle

NextMethods ==
    \/ \E options \in MethodInits : NewRequest(options)
    \/ \E r \in 1..Len(reqs), update \in MethodUpdates : CloneRequest(r, update)

SpecMethods == InitMethods /\ [][NextMethods]_vars

(***************************************************************************)
(* serializeBody and detectContentTypeHeader.  A body is the kind of value *)
(* it is; the HttpParams body is the root instance.  The host defines      *)
(* ArrayBuffer, Blob, FormData and URLSearchParams.                        *)
(***************************************************************************)
MaxQueries == 2

Bodies ==
    {"null", "FormData", "Blob(text/csv)", "Blob()", "ArrayBuffer", "URLSearchParams",
     "string", "HttpParams", "object", "array", "number", "boolean"}

typeof(body) ==
    CASE body = "undefined" -> "undefined"
      [] body = "string" -> "string"
      [] body = "number" -> "number"
      [] body = "boolean" -> "boolean"
      [] OTHER -> "object"

isArrayBuffer(value) == value = "ArrayBuffer"
isBlob(value) == value \in {"Blob(text/csv)", "Blob()"}
isFormData(value) == value = "FormData"
isUrlSearchParams(value) == value = "URLSearchParams"
\* Blob.type
BlobType(value) == IF value = "Blob(text/csv)" THEN "text/csv" ELSE ""

\* HttpRequest.serializeBody() of request r on heap h: what it returns (value, and the
\* text of an HttpParams body) or the error it throws.
serializeBody(h, r) ==
    IF r.body = "null" THEN [threw |-> "", value |-> "null", text |-> <<>>]
    ELSE IF isArrayBuffer(r.body) \/ isBlob(r.body) \/ isFormData(r.body)
            \/ isUrlSearchParams(r.body) \/ typeof(r.body) = "string"
    THEN [threw |-> "", value |-> "this.body", text |-> <<>>]
    ELSE IF r.body = "HttpParams"
    THEN [threw |-> "", value |-> "this.body.toString()", text |-> toString(init(h, 1), 1)]
    ELSE IF typeof(r.body) = "object" \/ typeof(r.body) = "boolean" \/ r.body = "array"
    THEN [threw |-> "", value |-> "JSON.stringify(this.body)", text |-> <<>>]
    \* (this.body as any).toString(): a TypeError when this.body is undefined
    ELSE IF r.body = "undefined"
    THEN [threw |-> "TypeError", value |-> "", text |-> <<>>]
    ELSE [threw |-> "", value |-> "this.body.toString()", text |-> <<>>]

\* The mutant of detectContentTypeHeader: a string body is taken for JSON.
detectContentTypeHeaderJson(r) ==
    IF r.body = "null" THEN None
    ELSE IF isFormData(r.body) THEN None
    ELSE IF isBlob(r.body) THEN (IF BlobType(r.body) # "" THEN Some(BlobType(r.body)) ELSE None)
    ELSE IF isArrayBuffer(r.body) THEN None
    ELSE IF r.body = "HttpParams" THEN Some("application/x-www-form-urlencoded;charset=UTF-8")
    ELSE IF typeof(r.body) \in {"object", "number", "boolean", "string"}
    THEN Some("application/json")
    ELSE None

\* HttpRequest.detectContentTypeHeader() of request r: the media type, or None for null.
detectContentTypeHeader(r) ==
    IF r.body = "null" THEN None
    ELSE IF isFormData(r.body) THEN None
    ELSE IF isBlob(r.body) THEN (IF BlobType(r.body) # "" THEN Some(BlobType(r.body)) ELSE None)
    ELSE IF isArrayBuffer(r.body) THEN None
    ELSE IF typeof(r.body) = "string" THEN Some("text/plain")
    ELSE IF r.body = "HttpParams" THEN Some("application/x-www-form-urlencoded;charset=UTF-8")
    ELSE IF typeof(r.body) \in {"object", "number", "boolean"} THEN Some("application/json")
    ELSE None

\* What a caller passes: a method that may or may not have a body, with each kind of
\* body or none.
BodyInits ==
    { [method |-> m, url |-> Some(Chars("/x")), body |-> b, params |-> None,
       headers |-> None, context |-> None, reportProgress |-> None,
       responseType |-> None, withCredentials |-> None] :
      m \in {"GET", "POST", "PUT"}, b \in {None} \cup {Some(k) : k \in Bodies} }

\* A caller's reqs[r].serializeBody(); the toString() of an HttpParams body runs its
\* init().
SerializeBody(r) ==
    /\ Len(reqs[r].serialized) < MaxQueries
    /\ reqs' = [reqs EXCEPT ![r].serialized = Append(@, serializeBody(Heap, reqs[r]))]
    /\ IF reqs[r].body = "HttpParams"
       THEN objs' = init(Heap, 1).objs /\ arrs' = init(Heap, 1).arrs
       ELSE UNCHANGED <<objs, arrs>>
    /\ UNCHANGED <<derived, constructed, clones, chainVars, obsVars>>

\* A caller's reqs[r].detectContentTypeHeader().
DetectContentTypeHeader(r) ==
    /\ Len(reqs[r].detected) < MaxQueries
    /\ reqs' = [reqs EXCEPT ![r].detected = Append(@, detectContentTypeHeader(reqs[r]))]
    /\ UNCHANGED <<paramVars, clones, chainVars, obsVars>>

\* The root instance is new HttpParams({fromObject: {a: ['1', '2']}}).
InitBody ==
    /\ LET h == newParams(EmptyHeap, Some(<< <<<<"a">>, <<Str(<<"1">>), Str(<<"2">>)>>>> >>))
       IN  objs = h.objs /\ arrs = h.arrs
    /\ derived = <<>>
    /\ constructed = <<>>
    /\ ReqIdle
    /\ ObsIdle
    /\ ChainIdle

\* One request per behaviour: requests share no state.
NextBody ==
    \/ \E options \in BodyInits : reqs = <<>> /\ NewRequest(options)
    \/ \E r \in 1..Len(reqs) : SerializeBody(r)
    \/ \E r \in 1..Len(reqs) : DetectContentTypeHeader(r)

SpecBody == InitBody /\ [][NextBody]_vars

(***************************************************************************)
(* HttpInterceptingManager and HttpClient.request.                         *)
(*                                                                         *)
(* An InterceptorLike is an interceptor instance ("A") or a factory        *)
(* function ("fC", whose call returns the interceptor "C").  A handler is  *)
(* the adapter, [kind |-> "adapter", id |-> T], or an                      *)
(* HttpInterceptorHandler, [kind |-> "interceptor", interceptor, next].    *)
(* What interceptors and adapters do is not this repository's code: an     *)
(* interceptor that was invoked may later forward to its next handler.     *)
(***************************************************************************)
Instances == {"A"}
Factories == {"fC"}
InterceptorLikes == Instances \cup Factories
Adapters == {"T1", "T2"}
\* Every request() / handle() call is made with a request of its own: the one
\* passed to the call that returns stream s.
RequestOf(s) == s

\* The clients: new HttpClient(adapter, interceptors?), sharing the one manager.
Clients ==
    { [adapter |-> "T1", interceptors |-> TRUE],
      [adapter |-> "T2", interceptors |-> FALSE] }

AdapterHandler(adapter) == [kind |-> "adapter", id |-> adapter]
\* new HttpInterceptorHandler(next, interceptor)
HttpInterceptorHandler(next, interceptor) ==
    [kind |-> "interceptor", interceptor |-> interceptor, next |-> next]

\* _getInterceptorsResoved: a function entry is called, an instance is used as it is.
getInterceptorsResolved(list) ==
    [i \in 1..Len(list) |-> IF list[i] \in Factories THEN "C" ELSE list[i]]

\* The calls item() that _getInterceptorsResoved makes, in order: one per function
\* entry of the list, each with no argument.
factoryCalls(list) ==
    [i \in 1..Len(SelectSeq(list, LAMBDA item : item \in Factories)) |->
        [f |-> SelectSeq(list, LAMBDA item : item \in Factories)[i], args |-> <<>>]]

RECURSIVE reduceLeft(_, _)
\* The mutant of reduceRight: a fold from the left.
reduceLeft(list, initial) ==
    IF list = <<>> THEN initial
    ELSE reduceLeft(Tail(list), HttpInterceptorHandler(initial, Head(list)))

RECURSIVE reduceRight(_, _)
\* list.reduceRight((next, interceptor) => new HttpInterceptorHandler(next, interceptor), initial)
reduceRight(list, initial) ==
    IF list = <<>> THEN initial
    ELSE reduceRight(SubSeq(list, 1, Len(list) - 1),
                     HttpInterceptorHandler(initial, list[Len(list)]))

\* The chain handle() builds for this adapter when none is cached.
buildChain(list, adapter) ==
    reduceRight(getInterceptorsResolved(list), AdapterHandler(adapter))

\* handler.handle(req): who is invoked, and the next handler it was given.  An entry's
\* afterEdit is history: whether the registered list had changed since the dispatch's
\* handle() call when the link was invoked; no code reads it.
invoke(handler, req, afterEdit) ==
    IF handler.kind = "interceptor"
    THEN [entry |-> [h |-> handler.interceptor, req |-> req, afterEdit |-> afterEdit],
          next |-> Some(handler.next)]
    ELSE [entry |-> [h |-> handler.id, req |-> req, afterEdit |-> afterEdit],
          next |-> None]

\* The mutant of HttpInterceptingManager: the caller's array itself is registered.
HttpInterceptingManagerNoCopy(interceptors) ==
    [list |-> IF interceptors = None THEN <<>> ELSE interceptors[1],
     shared |-> interceptors # None]

\* new HttpInterceptingManager(interceptors?): interceptors?.slice() ?? [] is registered.
\* list is the registered array's content; shared tells whether the registered array
\* is the array object the caller passed (slice() returns a new array).
HttpInterceptingManager(interceptors) ==
    [list |-> IF interceptors = None THEN <<>> ELSE interceptors[1],
     shared |-> FALSE]

\* What the owner of the passed array sees after the manager's list became list: the
\* same content if the two are one array object, its own content otherwise.
owned(p, list) == IF p.shared THEN [p EXCEPT !.items = list] ELSE p

\* The mutant of Add: the cached chain is kept.
AddKeepChain(interceptor) ==
    /\ Len(interceptorList) < MaxList
    /\ interceptorList' = Append(interceptorList, interceptor)
    /\ edits < MaxEdits
    /\ edits' = edits + 1
    /\ passed' = owned(passed, interceptorList')
    /\ UNCHANGED <<chain, streams, dispatches, paramVars, reqVars, obsVars>>

\* HttpInterceptingManager.add
Add(interceptor) ==
    /\ Len(interceptorList) < MaxList
    /\ interceptorList' = Append(interceptorList, interceptor)
    /\ chain' = None
    /\ edits < MaxEdits
    /\ edits' = edits + 1
    /\ passed' = owned(passed, interceptorList')
    /\ UNCHANGED <<streams, dispatches, paramVars, reqVars, obsVars>>

\* Array.prototype.splice(index, 1) with JS's 0-based, possibly negative, index.
SpliceAt(list, index) ==
    LET n == Len(list)
        start == IF index < 0 THEN (IF n + index < 0 THEN 0 ELSE n + index)
                 ELSE (IF index > n THEN n ELSE index)
    IN  IF start >= n THEN list ELSE Splice1(list, start + 1)

\* HttpInterceptingManager.removeByIndex
RemoveByIndex(index) ==
    /\ interceptorList' = SpliceAt(interceptorList, index)
    /\ chain' = None
    /\ edits < MaxEdits
    /\ edits' = edits + 1
    /\ passed' = owned(passed, interceptorList')
    /\ UNCHANGED <<streams, dispatches, paramVars, reqVars, obsVars>>

\* HttpInterceptingManager.remove
Remove(interceptor) ==
    /\ LET index == IndexOf(interceptorList, interceptor)
       IN  interceptorList' = IF index > 0 THEN Splice1(interceptorList, index)
                              ELSE interceptorList
    /\ chain' = None
    /\ edits < MaxEdits
    /\ edits' = edits + 1
    /\ passed' = owned(passed, interceptorList')
    /\ UNCHANGED <<streams, dispatches, paramVars, reqVars, obsVars>>

\* The mutant of handle: the chain is built on every call.
handleRebuilding(adapter, req, s) ==
    LET built == buildChain(interceptorList, adapter)
        inv == invoke(built, req, FALSE)
    IN  /\ chain' = Some(built)
        /\ dispatches' = Append(dispatches,
              [stream |-> s, handler |-> built, log |-> <<inv.entry>>, next |-> inv.next,
               adapter |-> adapter, regAtCall |-> interceptorList,
               built |-> TRUE, factoryCalls |-> factoryCalls(interceptorList),
               editsAtCall |-> edits, passedAtCall |-> passed.items])

\* The body of HttpInterceptingManager.handle(adapter, req) for stream s: the chain
\* is built if none is cached, and chain.handle(req) is called.  A dispatch's built,
\* factoryCalls, editsAtCall and passedAtCall are history: whether this call built the
\* chain, the factory calls it made, the number of edits made before it, and what the
\* array passed to the constructor held at the call.
handle(adapter, req, s) ==
    LET built == IF chain = None THEN buildChain(interceptorList, adapter) ELSE chain[1]
        inv == invoke(built, req, FALSE)
    IN  /\ chain' = Some(built)
        /\ dispatches' = Append(dispatches,
              [stream |-> s, handler |-> built, log |-> <<inv.entry>>, next |-> inv.next,
               adapter |-> adapter, regAtCall |-> interceptorList,
               built |-> chain = None,
               factoryCalls |-> IF chain = None THEN factoryCalls(interceptorList) ELSE <<>>,
               editsAtCall |-> edits, passedAtCall |-> passed.items])

NewStream(kind, adapter, interceptors, req) ==
    [kind |-> kind, adapter |-> adapter, interceptors |-> interceptors, req |-> req,
     subs |-> 0, regAtIssue |-> interceptorList]

\* The mutant of ManagerHandle: the chain is not touched until a subscription.
ManagerHandleDeferred(adapter) ==
    /\ streams' = Append(streams, NewStream("handle", adapter, TRUE, RequestOf(Len(streams) + 1)))
    /\ UNCHANGED <<interceptorList, chain, dispatches, edits, passed, paramVars, reqVars, obsVars>>

\* A caller's manager.handle(adapter, req); the returned observable is stream s.
ManagerHandle(adapter) ==
    /\ Len(dispatches) < MaxDispatches
    /\ streams' = Append(streams, NewStream("handle", adapter, TRUE, RequestOf(Len(streams) + 1)))
    /\ handle(adapter, RequestOf(Len(streams) + 1), Len(streams) + 1)
    /\ UNCHANGED <<interceptorList, edits, passed, paramVars, reqVars, obsVars>>

\* The defer callback of HttpClient.request, run for stream s:
\* this.interceptors?.handle(this.adapter, req) ?? this.adapter.handle(req).
deferred(st, s) ==
    IF st.interceptors
    THEN handle(st.adapter, st.req, s)
    ELSE LET inv == invoke(AdapterHandler(st.adapter), st.req, FALSE)
         IN  /\ dispatches' = Append(dispatches,
                   [stream |-> s, handler |-> AdapterHandler(st.adapter),
                    log |-> <<inv.entry>>, next |-> inv.next,
                    adapter |-> st.adapter, regAtCall |-> <<>>,
                    built |-> FALSE, factoryCalls |-> <<>>, editsAtCall |-> edits, passedAtCall |-> passed.items])
             /\ chain' = chain

\* The mutant of Request: the dispatch is made inside request().
RequestEager(client) ==
    /\ Len(dispatches) < MaxDispatches
    /\ LET st == NewStream("request", client.adapter, client.interceptors,
                           RequestOf(Len(streams) + 1))
       IN  /\ streams' = Append(streams, st)
           /\ deferred(st, Len(streams) + 1)
    /\ UNCHANGED <<interceptorList, edits, passed, paramVars, reqVars, obsVars>>

\* HttpClient.request(req, options): defer(...) and the pipes; nothing runs.
Request(client) ==
    /\ streams' = Append(streams, NewStream("request", client.adapter, client.interceptors,
                                            RequestOf(Len(streams) + 1)))
    /\ UNCHANGED <<interceptorList, chain, dispatches, edits, passed, paramVars, reqVars, obsVars>>

\* A subscription to stream s.  For a request() stream the defer callback runs.
\* A handle() stream is what chain.handle(req) returned: the manager is not re-entered.
Subscribe(s) ==
    /\ streams' = [streams EXCEPT ![s].subs = @ + 1]
    /\ IF streams[s].kind = "request"
       THEN /\ Len(dispatches) < MaxDispatches
            /\ deferred(streams[s], s)
       ELSE /\ streams[s].subs < MaxDispatches
            /\ UNCHANGED <<chain, dispatches>>
    /\ UNCHANGED <<interceptorList, edits, passed, paramVars, reqVars, obsVars>>

\* The mutant of Forward: the next link is looked up in the list as registered now.
ForwardCurrent(d) ==
    /\ dispatches[d].next # None
    /\ LET dp == dispatches[d]
           now == getInterceptorsResolved(interceptorList)
           k == Len(dp.log) + 1
           inv == invoke(IF k <= Len(now)
                         THEN HttpInterceptorHandler(AdapterHandler(dp.adapter), now[k])
                         ELSE AdapterHandler(dp.adapter),
                         dp.log[Len(dp.log)].req,
                         streams[dp.stream].interceptors /\ interceptorList # dp.regAtCall)
       IN  dispatches' = [dispatches EXCEPT ![d].log = Append(@, inv.entry),
                                            ![d].next = inv.next]
    /\ UNCHANGED <<interceptorList, chain, streams, edits, passed, paramVars, reqVars, obsVars>>

\* The interceptor invoked last in dispatch d calls next.handle(req):
\* HttpInterceptorHandler.handle, or the adapter's handle.
Forward(d) ==
    /\ dispatches[d].next # None
    /\ LET dp == dispatches[d]
           inv == invoke(dp.next[1], dp.log[Len(dp.log)].req,
                         streams[dp.stream].interceptors /\ interceptorList # dp.regAtCall)
       IN  dispatches' = [dispatches EXCEPT ![d].log = Append(@, inv.entry),
                                            ![d].next = inv.next]
    /\ UNCHANGED <<interceptorList, chain, streams, edits, passed, paramVars, reqVars, obsVars>>

\* The arrays a caller passes to the constructor; HttpClientBuilder.build passes its
\* _httpInterceptors.
Passed == {None, Some(<<>>), Some(<<"A">>), Some(<<"A", "fC">>)}

\* The state after new HttpInterceptingManager(interceptors), before any call.
ManagerConstructed(interceptors) ==
    /\ LET manager == HttpInterceptingManager(interceptors)
       IN  /\ interceptorList = manager.list
           /\ passed = [given |-> interceptors # None,
                         items |-> IF interceptors = None THEN <<>> ELSE interceptors[1],
                         shared |-> manager.shared]
    /\ chain = None
    /\ streams = <<>>
    /\ dispatches = <<>>
    /\ edits = 0
    /\ objs = <<>> /\ arrs = <<>> /\ derived = <<>> /\ constructed = <<>>
    /\ ReqIdle
    /\ ObsIdle

\* The manager is constructed from an array.
InitChain == \E interceptors \in Passed \ {None} : ManagerConstructed(interceptors)

NextChain ==
    \/ \E i \in InterceptorLikes : Add(i)
    \/ \E i \in InterceptorLikes : Remove(i)
    \/ \E index \in (0 - 1)..MaxList : RemoveByIndex(index)
    \/ \E a \in Adapters : Len(streams) < MaxStreams /\ ManagerHandle(a)
    \/ \E c \in Clients : Len(streams) < MaxStreams /\ Request(c)
    \/ \E s \in 1..Len(streams) : Subscribe(s)
    \/ \E d \in 1..Len(dispatches) : Forward(d)

SpecChain == InitChain /\ [][NextChain]_vars

(***************************************************************************)
(* One manager shared by several callers: clients that each have a         *)
(* transport of their own, and the owner of the array the manager was      *)
(* constructed from.  Each client makes one request() call.  What is       *)
(* followed is the chain each dispatch is bound to and its head link; the  *)
(* forwarding along a chain is followed in SpecChain.                      *)
(***************************************************************************)
SharingClients == {[adapter |-> a, interceptors |-> TRUE] : a \in Adapters}

RequestedBy(client) ==
    \E s \in 1..Len(streams) : streams[s].kind = "request" /\ streams[s].adapter = client.adapter

\* The owner of the passed array pushes onto it after the manager was constructed:
\* the caller's own push, or HttpClientBuilder.addInterceptors after build().
PushPassed(interceptor) ==
    /\ passed.given
    /\ Len(passed.items) < MaxList
    /\ passed' = [passed EXCEPT !.items = Append(@, interceptor)]
    /\ interceptorList' = IF passed.shared THEN Append(passed.items, interceptor)
                          ELSE interceptorList
    /\ UNCHANGED <<chain, streams, dispatches, edits, paramVars, reqVars, obsVars>>

\* The manager is constructed from an array or without one.
InitShared == \E interceptors \in Passed : ManagerConstructed(interceptors)

NextShared ==
    \/ \E i \in InterceptorLikes : Add(i)
    \/ \E i \in InterceptorLikes : Remove(i)
    \/ \E index \in {0} : RemoveByIndex(index)
    \/ \E c \in SharingClients : ~RequestedBy(c) /\ Request(c)
    \/ \E s \in 1..Len(streams) : Subscribe(s)
    \/ \E i \in InterceptorLikes : PushPassed(i)

SpecShared == InitShared /\ [][NextShared]_vars

(***************************************************************************)
(* HttpClient.request: the observation modes over the event stream.  An    *)
(* event is [response, body]: an HttpResponse with the kind of its body,   *)
(* or another HttpEvent.  A notification is what a subscriber is sent:     *)
(* next with a value, error with the error, or complete.  A call is        *)
(* [observe, responseType, threw]; a subscription is                       *)
(*   [call, source, seen, closed]                                          *)
(* with source what the transport's stream sent while this subscription    *)
(* was subscribed to it, seen what the consumer was sent, and closed after *)
(* an error or complete reached the consumer.                              *)
(***************************************************************************)
MaxEvents == 2

ObserveType == {"body", "events", "response"}
ResponseType == {"arraybuffer", "blob", "json", "text"}

BodyKinds == {"null", "ArrayBuffer", "Blob", "string", "object"}
HttpEvents ==
    {[response |-> FALSE, body |-> "none"]} \cup {[response |-> TRUE, body |-> b] : b \in BodyKinds}
\* An error is its message; a body handed to the consumer is [body |-> kind].
TransportErrors == {[message |-> "timeout"]}
Body(kind) == [body |-> kind]

Next(value) == [kind |-> "next", value |-> value]
Error(value) == [kind |-> "error", value |-> value]
Complete == [kind |-> "complete", value |-> [message |-> ""]]

\* The mutant of project: the body is handed on whatever its type.
projectUnchecked(responseType, res) == [threw |-> FALSE, value |-> res.body]

\* The map() projections of observe 'body': the body, or the Error thrown.
project(responseType, res) ==
    CASE responseType = "arraybuffer" ->
            IF res.body # "null" /\ res.body # "ArrayBuffer"
            THEN [threw |-> TRUE, value |-> "Response is not an ArrayBuffer."]
            ELSE [threw |-> FALSE, value |-> res.body]
      [] responseType = "blob" ->
            IF res.body # "null" /\ res.body # "Blob"
            THEN [threw |-> TRUE, value |-> "Response is not a Blob."]
            ELSE [threw |-> FALSE, value |-> res.body]
      [] responseType = "text" ->
            IF res.body # "null" /\ res.body # "string"
            THEN [threw |-> TRUE, value |-> "Response is not a string."]
            ELSE [threw |-> FALSE, value |-> res.body]
      [] OTHER -> [threw |-> FALSE, value |-> res.body]

\* The mutant of piped: an error of the source completes the stream.
pipedSwallow(call, n) ==
    IF n.kind = "error" THEN <<Complete>>
    ELSE IF n.kind = "complete" THEN <<n>>
    ELSE IF call.observe = "events" THEN <<n>>
    ELSE IF ~n.value.response THEN <<>>
    ELSE IF call.observe = "response" THEN <<n>>
    ELSE LET p == project(call.responseType, n.value)
         IN  IF p.threw THEN <<Error([message |-> p.value])>> ELSE <<Next(Body(p.value))>>

\* What the observable request() returned sends its subscriber for one notification
\* n of events$: events$ itself, or filter(instanceof HttpResponse), or filter and
\* map; a throw inside map's projection is sent as an error.
piped(call, n) ==
    IF n.kind # "next" THEN <<n>>
    ELSE IF call.observe = "events" THEN <<n>>
    ELSE IF ~n.value.response THEN <<>>
    ELSE IF call.observe = "response" THEN <<n>>
    ELSE LET p == project(call.responseType, n.value)
         IN  IF p.threw THEN <<Error([message |-> p.value])>> ELSE <<Next(Body(p.value))>>

\* HttpClient.request(req, options) with req.responseType and options.observe (None
\* when options or observe is left out): the call, thrown or returned.
request(responseType, observe) ==
    LET observeType == IF observe = None THEN "body" ELSE observe[1]
    IN  [observe |-> observeType, responseType |-> responseType,
         threw |-> observeType \notin ObserveType]

\* The number of notifications the transport's streams have sent.
RECURSIVE Emitted(_)
Emitted(subs) == IF subs = <<>> THEN 0 ELSE Len(Head(subs).source) + Emitted(Tail(subs))

InitObserve ==
    /\ objs = <<>> /\ arrs = <<>> /\ derived = <<>> /\ constructed = <<>>
    /\ ReqIdle
    /\ ObsIdle
    /\ ChainIdle

\* A caller's request(req, options): the one call of a behaviour (calls share no
\* state).
ObservedRequest(responseType, observe) ==
    /\ calls = <<>>
    /\ calls' = Append(calls, request(responseType, observe))
    /\ UNCHANGED <<subscriptions, paramVars, reqVars, chainVars>>

\* A subscription to what call c returned: the defer callback subscribes to the
\* transport's stream.
SubscribeObserved(c) ==
    /\ ~calls[c].threw
    /\ Len(subscriptions) < MaxDispatches
    /\ subscriptions' = Append(subscriptions,
                                [call |-> c, source |-> <<>>, seen |-> <<>>, closed |-> FALSE])
    /\ UNCHANGED <<calls, paramVars, reqVars, chainVars>>

\* The transport's stream of subscription k sends notification n.  It is events$ as it
\* is: HttpInterceptorHandler.handle returns what intercept returned, and an
\* interceptor that leaves the stream alone returns what next.handle(req) returned.
\* A subscriber that was sent an error or complete is unsubscribed from its source.
Emit(k, n) ==
    /\ ~subscriptions[k].closed
    /\ Emitted(subscriptions) < MaxEvents
    /\ LET out == piped(calls[subscriptions[k].call], n)
       IN  subscriptions' = [subscriptions EXCEPT
              ![k].source = Append(@, n),
              ![k].seen = @ \o out,
              ![k].closed = \E i \in 1..Len(out) : out[i].kind # "next"]
    /\ UNCHANGED <<calls, paramVars, reqVars, chainVars>>

NextObserve ==
    \/ \E rt \in ResponseType, o \in {None, Some("unknown")} \cup {Some(t) : t \in ObserveType} :
          ObservedRequest(rt, o)
    \/ \E c \in 1..Len(calls) : SubscribeObserved(c)
    \/ \E k \in 1..Len(subscriptions), e \in HttpEvents : Emit(k, Next(e))
    \/ \E k \in 1..Len(subscriptions), e \in TransportErrors : Emit(k, Error(e))
    \/ \E k \in 1..Len(subscriptions) : Emit(k, Complete)

SpecObserve == InitObserve /\ [][NextObserve]_vars

(***************************************************************************)
(* The claims.                                                             *)
(***************************************************************************)
\* C1: append, set and delete never mutate the receiver: no later append / set /
\* delete on a container or on containers derived from it, and no read of those,
\* changes what keys() and getAll(k) return for any existing container.
C1_ReceiverNeverMutated ==
    [][\A c \in 1..Len(objs) : View(c)' = View(c)]_vars

\* C2: the mapping each container of a lineage resolves to does not depend on which
\* container is read first, and a second read returns what the first returned:
\* init is idempotent and init on c and init on d commute, for all c and d.
C2_ResolveOrderIndependent ==
    \A c, d \in 1..Len(objs) :
        LET cd == init(init(Heap, c), d)
            dc == init(init(Heap, d), c)
        IN  /\ Contents(cd, c) = Contents(dc, c)
            /\ Contents(cd, d) = Contents(dc, d)
            /\ Contents(init(init(Heap, c), c), c) = Contents(init(Heap, c), c)

(***************************************************************************)
(* The interceptors a registered list stands for, in registration order.   *)
(***************************************************************************)
Registered(list) == [i \in 1..Len(list) |-> IF list[i] = "fC" THEN "C" ELSE list[i]]

RECURSIVE Wrapped(_)
\* The interceptors a handler wraps, outermost first.
Wrapped(handler) ==
    IF handler.kind = "interceptor" THEN <<handler.interceptor>> \o Wrapped(handler.next)
    ELSE <<>>

ViaManager(d) == streams[dispatches[d].stream].interceptors
DispatchesOf(s) == {d \in 1..Len(dispatches) : dispatches[d].stream = s}

\* C3: a dispatch invokes the interceptors in registration order: the first link is
\* called with the dispatched request, the k-th invocation of a dispatch is the
\* k-th registered interceptor, and a transport is invoked only after all of them.
C3_RegistrationOrder ==
    \A d \in 1..Len(dispatches) :
        LET dp == dispatches[d]
            reg == Registered(dp.regAtCall)
        IN  /\ Len(dp.log) >= 1
            /\ Len(dp.log) <= Len(reg) + 1
            /\ dp.log[1].req = streams[dp.stream].req
            /\ \A i \in 1..Len(dp.log) :
                  IF i <= Len(reg) THEN dp.log[i].h = reg[i] ELSE dp.log[i].h \in Adapters

C3_Witness ==
    \E d \in 1..Len(dispatches) :
        /\ dispatches[d].regAtCall = <<"A", "fC">>
        /\ Len(dispatches[d].log) = 3

\* C4: after add / remove / removeByIndex no chain built from the earlier list is
\* used: a cached chain wraps exactly the interceptors registered now, and every
\* dispatch ran through the interceptors registered when its handle() was called.
C4_EditInvalidatesChain ==
    /\ chain # None => Wrapped(chain[1]) = Registered(interceptorList)
    /\ \A d \in 1..Len(dispatches) :
          ViaManager(d) => Wrapped(dispatches[d].handler) = Registered(dispatches[d].regAtCall)

C4_Witness ==
    \E d1, d2 \in 1..Len(dispatches) :
        /\ d1 < d2
        /\ ViaManager(d1) /\ ViaManager(d2)
        /\ dispatches[d1].regAtCall # dispatches[d2].regAtCall
        /\ Wrapped(dispatches[d2].handler) = Registered(interceptorList)
        /\ edits > 0

\* C5 as claimed: every dispatch of a stream runs through the interceptors that were
\* registered when the stream was returned by request() or handle(), whether the
\* stream is subscribed before or after an edit.
C5_StreamKeepsListAtIssue ==
    \A d \in 1..Len(dispatches) :
        ViaManager(d) =>
            Wrapped(dispatches[d].handler) = Registered(streams[dispatches[d].stream].regAtIssue)

\* C5 as amended: a handle() stream is bound to the list registered at the handle()
\* call; a request() stream is bound, per subscription, to the list registered when
\* that subscription started; and every link invoked after a later edit is still the
\* next one of that list.
C5_DispatchKeepsListAtCall ==
    \A d \in 1..Len(dispatches) :
        LET dp == dispatches[d]
            reg == Registered(dp.regAtCall)
        IN  ViaManager(d) =>
              /\ streams[dp.stream].kind = "handle" =>
                    dp.regAtCall = streams[dp.stream].regAtIssue
              /\ \A i \in 1..Len(dp.log) :
                    dp.log[i].afterEdit =>
                        /\ i <= Len(reg) + 1
                        /\ i <= Len(reg) => dp.log[i].h = reg[i]
                        /\ i = Len(reg) + 1 => dp.log[i].h \in Adapters

C5_Witness ==
    \E d \in 1..Len(dispatches) :
        /\ streams[dispatches[d].stream].kind = "request"
        /\ Len(dispatches[d].log) >= 2
        /\ dispatches[d].log[2].afterEdit
        /\ dispatches[d].log[2].h = "C"

\* C6: request() dispatches nothing, and each subscription to its stream makes
\* exactly one dispatch from the head of the chain: the dispatches of a request()
\* stream whose first invocation is the first registered interceptor (a transport
\* when none is registered) are as many as its subscriptions.
C6_ColdPerSubscription ==
    \A s \in 1..Len(streams) :
        streams[s].kind = "request" =>
            /\ Cardinality(DispatchesOf(s)) = streams[s].subs
            /\ \A d \in DispatchesOf(s) :
                  LET reg == Registered(dispatches[d].regAtCall)
                  IN  /\ Len(dispatches[d].log) >= 1
                      /\ IF reg # <<>> THEN dispatches[d].log[1].h = reg[1]
                         ELSE dispatches[d].log[1].h \in Adapters

C6_Witness ==
    \E s \in 1..Len(streams) :
        /\ streams[s].kind = "request"
        /\ streams[s].subs = 2
        /\ Cardinality(DispatchesOf(s)) = 2

\* C7 as claimed: handle() itself invokes no interceptor and no transport: a
\* handle() stream that was never subscribed has no invocation.
C7_HandleIsLazy ==
    \A s \in 1..Len(streams) :
        (streams[s].kind = "handle" /\ streams[s].subs = 0) => DispatchesOf(s) = {}

\* C7 as amended: handle() calls the composed chain's handle(request) itself, once,
\* before any subscription: a handle() stream has exactly one dispatch, whose head
\* link was invoked with the request, however often the stream is subscribed.
C7_HandleInvokesChainOnCall ==
    \A s \in 1..Len(streams) :
        streams[s].kind = "handle" =>
            /\ Cardinality(DispatchesOf(s)) = 1
            /\ \A d \in DispatchesOf(s) :
                  /\ Len(dispatches[d].log) >= 1
                  /\ dispatches[d].log[1].req = streams[s].req
                  /\ IF dispatches[d].regAtCall # <<>>
                     THEN dispatches[d].log[1].h = Registered(dispatches[d].regAtCall)[1]
                     ELSE dispatches[d].log[1].h \in Adapters

C7_Witness ==
    \E s \in 1..Len(streams) :
        /\ streams[s].kind = "handle"
        /\ streams[s].subs = 0
        /\ \E d \in DispatchesOf(s) : dispatches[d].log[1].h = "A"

\* What the reads of a request's params return.
ParamsOf(r) == Contents(init(Heap, r.params), r.params)

\* C8: r.clone(u) returns a new request in which every field that u does not name has
\* the value it has in r, and clone() with no update yields the same url and the
\* same urlWithParams as r.
C8_CloneCarriesOver ==
    \A i \in 1..Len(clones) :
        LET c == clones[i]
            u == c.update
        IN  /\ c.ok
            /\ LET r == reqs[c.src]
                   n == reqs[c.result]
               IN  /\ u.method = None => n.method = r.method
                   /\ u.url = None => n.url = r.url
                   /\ (u.body = None /\ u.method = None) => n.body = r.body
                   /\ (u.headers = None /\ u.setHeaders = None) => n.headers = r.headers
                   /\ (u.params = None /\ u.setParams = None) => ParamsOf(n) = ParamsOf(r)
                   /\ u.context = None => n.context = r.context
                   /\ u.reportProgress = None => n.reportProgress = r.reportProgress
                   /\ u.withCredentials = None => n.withCredentials = r.withCredentials
                   /\ u.responseType = None => n.responseType = r.responseType
                   /\ u = NoUpdate => n.urlWithParams = r.urlWithParams

\* C9: r.clone({setParams: m}) returns a request in whose params every key of m has
\* exactly the value m[key], every other key of r's params keeps all its values, and
\* r's own params and urlWithParams are what they were.
C9_SetParamsOverrides ==
    \A i \in 1..Len(clones) :
        LET c == clones[i]
            u == c.update
        IN  (u.setParams # None /\ u.params = None) =>
              /\ c.ok
              /\ LET r == reqs[c.src]
                     n == reqs[c.result]
                     m == u.setParams[1]
                     named == {m[j][1] : j \in 1..Len(m)}
                 IN  /\ \A j \in 1..Len(m) :
                           getAll(init(Heap, n.params), n.params, m[j][1]) = Some(<<Str(m[j][2])>>)
                     /\ \A k \in {c.srcParams.keys[j] : j \in 1..Len(c.srcParams.keys)} \ named :
                           getAll(init(Heap, n.params), n.params, k)
                             = getAll(init(Heap, r.params), r.params, k)
                     /\ keys(init(Heap, r.params), r.params) = c.srcParams.keys
                     /\ \A k \in {c.srcParams.keys[j] : j \in 1..Len(c.srcParams.keys)} :
                           getAll(init(Heap, r.params), r.params, k) = c.srcParams.all[k]

\* C10: urlWithParams is the url when the serialized parameter string is empty;
\* otherwise the url, then '?' when the url holds no '?', '&' when it holds a '?'
\* that is not its last character, nothing when its only '?' is its last character,
\* then the parameter string.
C10_UrlWithParams ==
    \A i \in 1..Len(reqs) :
        LET r == reqs[i]
            ps == r.ctorParams
        IN  IF ps = <<>> THEN r.urlWithParams = r.ctorUrl
            ELSE /\ r.ctorUrl # None
                 /\ LET url == r.ctorUrl[1]
                        joined == IF \A j \in 1..Len(url) : url[j] # "?"
                                  THEN url \o <<"?">> \o ps
                                  ELSE IF \E j \in 1..(Len(url) - 1) : url[j] = "?"
                                       THEN url \o <<"&">> \o ps
                                       ELSE url \o ps
                    IN  r.urlWithParams = Some(joined)

C10_Witness ==
    \E i, j \in 1..Len(reqs) :
        /\ reqs[i].ctorUrl = Some(Chars("/x?y=1"))
        /\ reqs[i].urlWithParams = Some(Chars("/x?y=1&z=2"))
        /\ reqs[j].ctorUrl = Some(Chars("/x?"))
        /\ reqs[j].urlWithParams = Some(<<"/", "x", "?", "z", "=", "2">>)

\* C11: a request whose method is GET, DELETE, HEAD, OPTIONS or JSONP has a null body,
\* whether the constructor was called by a caller or by clone, and whatever body it
\* was given.
C11_NoBodyMethods ==
    \A i \in 1..Len(reqs) :
        reqs[i].method \in {"GET", "DELETE", "HEAD", "OPTIONS", "JSONP"} => reqs[i].body = "null"

\* A POST that carries a body, cloned into a JSONP with an explicit body in the
\* update: the constructor was given a body and the clone's body is null.
C11_Witness ==
    \E k \in 1..Len(clones) :
        /\ clones[k].ok
        /\ clones[k].update.method = Some("JSONP")
        /\ clones[k].update.body = Some("object")
        /\ reqs[clones[k].src].method = "POST"
        /\ reqs[clones[k].src].body = "string"
        /\ reqs[clones[k].result].method = "JSONP"
        /\ reqs[clones[k].result].ctorBody = Some("object")
        /\ reqs[clones[k].result].body = "null"

\* The value list a read of contents c gives for name, empty when name is absent.
ListOf(c, name) == IF c.all[name] = None THEN <<>> ELSE c.all[name][1]
\* Every key but name has in b the values it has in a.
OthersKept(a, b, name) == \A p \in ParamNames \ {name} : b.all[p] = a.all[p]
\* The contents a without the key name.
Without(a, name) ==
    [keys |-> SelectSeq(a.keys, LAMBDA k : k # name), all |-> [a.all EXCEPT ![name] = None]]

\* C12: in the container append(name, v) returned, getAll(name) is the receiver's
\* list for name as it was at the call (empty if absent) followed by v, and every
\* other key has the receiver's values.
C12_AppendKeepsPrior ==
    \A k \in 1..Len(derived) :
        derived[k].update.op = "a" =>
            LET d == derived[k]
                name == d.update.param
                after == View(d.n)
            IN  /\ after.all[name] = Some(ListOf(d.at, name) \o <<valueToString(d.update.value[1])>>)
                /\ OthersKept(d.at, after, name)

\* C13: in the container set(name, v) returned, getAll(name) is [v] and every other
\* key has the receiver's values.
C13_SetDropsPrior ==
    \A k \in 1..Len(derived) :
        derived[k].update.op = "s" =>
            LET d == derived[k]
                name == d.update.param
                after == View(d.n)
            IN  /\ after.all[name] = Some(<<valueToString(d.update.value[1])>>)
                /\ OthersKept(d.at, after, name)

\* The list with every value in the string form the container's reads are typed to give.
AsStrings(list) == [i \in 1..Len(list) |-> valueToString(list[i])]

\* C14: the container delete(name) returned does not have name, and delete(name, v)
\* when v is the only value of name in the receiver gives the receiver's mapping
\* without the key name.
C14_DeleteRemovesKey ==
    \A k \in 1..Len(derived) :
        derived[k].update.op = "d" =>
            LET d == derived[k]
                name == d.update.param
                after == View(d.n)
            IN  /\ d.update.value = None => ~(\E i \in 1..Len(after.keys) : after.keys[i] = name)
                /\ (d.update.value # None
                        /\ AsStrings(ListOf(d.at, name)) = <<valueToString(d.update.value[1])>>)
                        => after = Without(d.at, name)

\* C15: delete(name, v) removes the first occurrence of v from the receiver's list
\* for name and keeps the rest in order; when v is not in the list, or name is
\* absent, the returned container has the receiver's keys and values.
C15_DeleteFirstOccurrence ==
    \A k \in 1..Len(derived) :
        (derived[k].update.op = "d" /\ derived[k].update.value # None) =>
            LET d == derived[k]
                name == d.update.param
                v == valueToString(d.update.value[1])
                list == ListOf(d.at, name)
                after == View(d.n)
            IN  IF \E i \in 1..Len(list) : valueToString(list[i]) = v
                THEN LET rest == Splice1(list, IndexOf(AsStrings(list), v))
                     IN  /\ after.all[name] = IF rest = <<>> THEN None ELSE Some(rest)
                         /\ OthersKept(d.at, after, name)
                ELSE after = d.at

\* C16: a constructor call whose options hold both fromString and fromObject throws
\* the configuration error, whatever the string and the map are.
C16_BothSourcesThrow ==
    \A k \in 1..Len(constructed) :
        (constructed[k].options.fromString # None /\ constructed[k].options.fromObject # None)
            => constructed[k].threw = "Error"

\* C17: a container parsed from a valid raw string serializes to a string that parses
\* again, to the same mapping.
C17_RoundTrip ==
    \A k \in 1..Len(constructed), j \in 1..Len(constructed) :
        (/\ constructed[k].src = 0
         /\ constructed[k].options.fromString # None
         /\ constructed[k].options.fromObject = None
         /\ constructed[k].threw = ""
         /\ constructed[j].src = constructed[k].n)
            => /\ constructed[j].threw = ""
               /\ constructed[j].mapping = constructed[k].mapping

\* The raw string without one leading '?'.
Stripped(raw) == IF raw # <<>> /\ raw[1] = "?" THEN SubSeq(raw, 2, Len(raw)) ELSE raw
\* The i-th '&'-separated piece of body, i counted from 1: it lies between the
\* (i-1)-th and the i-th '&'.
Amps(body) == {i \in 1..Len(body) : body[i] = "&"}
AmpAt(body, n) ==
    IF n = 0 THEN 0
    ELSE IF n > Cardinality(Amps(body)) THEN Len(body) + 1
    ELSE CHOOSE i \in Amps(body) : Cardinality({x \in Amps(body) : x < i}) = n - 1
Piece(body, i) == SubSeq(body, AmpAt(body, i - 1) + 1, AmpAt(body, i) - 1)
\* The key and the value of a piece: around its first '=', or the piece and "".
FirstEq(piece) ==
    IF \E i \in 1..Len(piece) : piece[i] = "="
    THEN CHOOSE i \in 1..Len(piece) : piece[i] = "=" /\ \A x \in 1..(i - 1) : piece[x] # "="
    ELSE Len(piece) + 1
KeyOf(piece) == decodeKey(SubSeq(piece, 1, FirstEq(piece) - 1)).s
ValueOf(piece) == decodeValue(SubSeq(piece, FirstEq(piece) + 1, Len(piece))).s
\* The mapping the claim describes for a raw string that is not empty.
Described(raw) ==
    LET body == Stripped(raw)
        n == Cardinality(Amps(body)) + 1
        pieces == [i \in 1..n |-> Piece(body, i)]
    IN  [key \in {KeyOf(pieces[i]) : i \in 1..n} |->
            LET mine == SelectSeq(pieces, LAMBDA q : KeyOf(q) = key)
            IN  [i \in 1..Len(mine) |-> Str(ValueOf(mine[i]))]]

\* C18: a container constructed from a raw string alone holds the mapping the claim
\* describes: one leading '?' stripped, pieces split on '&', each split at its first
\* '=', a piece without '=' mapped to "", the values of a key in order of appearance.
C18_ParseRaw ==
    \A k \in 1..Len(constructed) :
        (/\ constructed[k].options.fromString # None
         /\ constructed[k].options.fromString[1] # <<>>
         /\ constructed[k].options.fromObject = None
         /\ constructed[k].threw = "")
            => constructed[k].mapping = Described(constructed[k].options.fromString[1])

\* fromString("a=1&a=2&b"): getAll("a") is ["1", "2"] and get("b") is "".
C18_Witness ==
    \E k \in 1..Len(constructed) :
        /\ constructed[k].options.fromString =
               Some(<<"a", "=", "1", "&", "a", "=", "2", "&", "b">>)
        /\ constructed[k].threw = ""
        /\ getAll(Heap, constructed[k].n, <<"a">>) = Some(<<Str(<<"1">>), Str(<<"2">>)>>)
        /\ get(Heap, constructed[k].n, <<"b">>) = Some(Str(<<>>))

\* The kind of body each validated responseType declares.
DeclaredKind(responseType) ==
    CASE responseType = "arraybuffer" -> "ArrayBuffer"
      [] responseType = "blob" -> "Blob"
      [] responseType = "text" -> "string"
\* A notification that carries a response whose non-null body is not of the type the
\* call's responseType declares.
IsMismatch(call, n) ==
    /\ n.kind = "next"
    /\ n.value.response
    /\ call.responseType \in {"arraybuffer", "blob", "text"}
    /\ n.value.body \notin {"null", DeclaredKind(call.responseType)}
ShapeErrors ==
    {Error([message |-> m]) : m \in {"Response is not an ArrayBuffer.", "Response is not a Blob.",
                                     "Response is not a string."}}
Nexts(ns) == SelectSeq(ns, LAMBDA n : n.kind = "next")
Responses(ns) == SelectSeq(ns, LAMBDA n : n.kind = "next" /\ n.value.response)

\* C19: request() with one of the three observe modes does not throw; with observe
\* 'body', a response whose non-null body is not of the declared type ends the stream
\* with an error and no value is sent for it; with 'response' or 'events' the same
\* response is sent on and no error is made of it.
C19_ShapeErrorOnStream ==
    /\ \A c \in 1..Len(calls) : calls[c].observe \in ObserveType => ~calls[c].threw
    /\ \A k \in 1..Len(subscriptions) :
          LET sub == subscriptions[k]
              call == calls[sub.call]
          IN  \A i \in 1..Len(sub.source) :
                IsMismatch(call, sub.source[i]) =>
                    IF call.observe = "body"
                    THEN /\ i = Len(sub.source)
                         /\ sub.closed
                         /\ sub.seen # <<>>
                         /\ sub.seen[Len(sub.seen)] \in ShapeErrors
                         /\ Len(Nexts(sub.seen)) = Len(Responses(SubSeq(sub.source, 1, i - 1)))
                    ELSE /\ \E j \in 1..Len(sub.seen) : sub.seen[j] = sub.source[i]
                         /\ \A j \in 1..Len(sub.seen) : sub.seen[j] \notin ShapeErrors

\* A null body and then a JSON body for responseType arraybuffer, observed as 'body':
\* null is sent on, and the stream ends with the shape error.
C19_Witness ==
    \E k \in 1..Len(subscriptions) :
        /\ calls[subscriptions[k].call].observe = "body"
        /\ calls[subscriptions[k].call].responseType = "arraybuffer"
        /\ subscriptions[k].source = <<Next([response |-> TRUE, body |-> "null"]),
                                       Next([response |-> TRUE, body |-> "object"])>>
        /\ subscriptions[k].seen =
               <<Next(Body("null")), Error([message |-> "Response is not an ArrayBuffer."])>>
        /\ subscriptions[k].closed

\* C20: an error of the transport's stream is the last thing the consumer is sent, as
\* it was signalled, in every observation mode; what was sent before it is the
\* transport's events ('events'), its responses ('response') or their bodies
\* ('body'), in the transport's order.
C20_TransportErrorUnchanged ==
    \A k \in 1..Len(subscriptions) :
        LET sub == subscriptions[k]
            call == calls[sub.call]
            src == sub.source
            before == Nexts(sub.seen)
        IN  /\ \A i \in 1..Len(src) :
                  src[i].kind = "error" =>
                      /\ i = Len(src)
                      /\ sub.closed
                      /\ sub.seen # <<>>
                      /\ sub.seen[Len(sub.seen)] = src[i]
            /\ CASE call.observe = "events" -> before = Nexts(src)
                  [] call.observe = "response" -> before = Responses(src)
                  [] call.observe = "body" ->
                        /\ Len(before) <= Len(Responses(src))
                        /\ \A j \in 1..Len(before) :
                              before[j].value = Body(Responses(src)[j].value.body)

\* A text response and then a failure of the transport, observed as 'body'.
C20_Witness ==
    \E k \in 1..Len(subscriptions) :
        /\ calls[subscriptions[k].call].observe = "body"
        /\ calls[subscriptions[k].call].responseType = "text"
        /\ subscriptions[k].source = <<Next([response |-> TRUE, body |-> "string"]),
                                       Error([message |-> "timeout"])>>
        /\ subscriptions[k].seen = <<Next(Body("string")), Error([message |-> "timeout"])>>

\* C21 as claimed: remove(x) with x not in the registered list (by identity) leaves
\* the manager as it was: the registered list and the cached chain are unchanged.
C21_RemoveAbsentIsNoOp ==
    [][\A x \in InterceptorLikes :
          (IndexOf(interceptorList, x) = 0 /\ Remove(x)) =>
              (interceptorList' = interceptorList /\ chain' = chain)]_vars

\* C22: detectContentTypeHeader follows the kind of the body: none for no body,
\* FormData, an ArrayBuffer and a Blob without a type; the Blob's own type for a Blob
\* that has one; text/plain for a string; the URL-encoded form media type for an
\* HttpParams body; application/json for an object, array, number or boolean; and
\* every call on one request returns the same.
C22_ContentTypeByKind ==
    \A r \in 1..Len(reqs) :
        \A i \in 1..Len(reqs[r].detected) :
            LET b == reqs[r].body
                t == reqs[r].detected[i]
            IN  /\ t = reqs[r].detected[1]
                /\ b \in {"null", "undefined", "FormData", "ArrayBuffer", "Blob()"} => t = None
                /\ b = "Blob(text/csv)" => t = Some("text/csv")
                /\ b = "string" => t = Some("text/plain")
                /\ b = "HttpParams" =>
                      t = Some("application/x-www-form-urlencoded;charset=UTF-8")
                /\ b \in {"object", "array", "number", "boolean"} =>
                      t = Some("application/json")

C22_Witness ==
    \E r \in 1..Len(reqs) :
        /\ reqs[r].body = "HttpParams"
        /\ Len(reqs[r].detected) = 2
        /\ reqs[r].detected[2] = Some("application/x-www-form-urlencoded;charset=UTF-8")

\* C27 as claimed: serializeBody never throws, returns null for a request without a
\* body (also a POST or PUT built with no body supplied), and every call on one
\* request returns the same.
C27_SerializeNoBodyIsNull ==
    \A r \in 1..Len(reqs) :
        \A i \in 1..Len(reqs[r].serialized) :
            /\ reqs[r].serialized[i].threw = ""
            /\ reqs[r].serialized[i] = reqs[r].serialized[1]
            /\ reqs[r].ctorBody = None => reqs[r].serialized[i].value = "null"
            /\ reqs[r].body = "null" => reqs[r].serialized[i].value = "null"

\* An eager container: a mapping held by value.  Its update copies the mapping into
\* arrays of its own, applies the one update to the copy, and reads the copy back.
EagerApply(a, update) ==
    LET st == applyUpdate([map |-> [i \in 1..Len(a.keys) |-> [key |-> a.keys[i], arr |-> i]],
                           arrs |-> [i \in 1..Len(a.keys) |-> a.all[a.keys[i]][1]]],
                          update)
    IN  [keys |-> MapKeys(st.map),
         all |-> [p \in ParamNames |->
                    IF MapHas(st.map, p) THEN Some(st.arrs[MapGet(st.map, p)]) ELSE None]]

\* C23 as claimed: what a derived container reads as is the eager application of its
\* recorded update to the mapping its receiver read as when the update was recorded,
\* after every sequence of append, set, delete and reads.
C23_LazyEqualsEager ==
    \A k \in 1..Len(derived) :
        View(derived[k].n) = EagerApply(derived[k].at, derived[k].update)

\* C25 as claimed: whatever the caller does afterwards with the container it passed
\* and with containers derived from it (append, set, delete, reads), the request's
\* params.toString() stays the parameter string embedded in urlWithParams at
\* construction.
C25_RequestParamsFixed ==
    \A r \in 1..Len(reqs) :
        toString(init(Heap, reqs[r].params), reqs[r].params) = reqs[r].ctorParams

\* The number of entries of list that are the factory f.
Occurrences(list, f) == Cardinality({i \in 1..Len(list) : list[i] = f})
\* The dispatches made through the manager after exactly n edits.
DispatchesAfter(n) ==
    {d \in 1..Len(dispatches) : ViaManager(d) /\ dispatches[d].editsAtCall = n}

\* C24: factories are called only by a handle() that builds the chain, each factory
\* entry of the registered list once and with no argument; and of the dispatches
\* made with no add / remove / removeByIndex between them exactly one, the first,
\* builds the chain, so the others call no factory.
C24_FactoriesResolvedAtBuild ==
    /\ \A d \in 1..Len(dispatches) :
          LET dp == dispatches[d]
          IN  /\ ~dp.built => dp.factoryCalls = <<>>
              /\ dp.built =>
                    /\ \A i \in 1..Len(dp.factoryCalls) : dp.factoryCalls[i].args = <<>>
                    /\ \A f \in Factories :
                          Occurrences([i \in 1..Len(dp.factoryCalls) |-> dp.factoryCalls[i].f], f)
                              = Occurrences(dp.regAtCall, f)
    /\ \A n \in 0..edits :
          \A d \in DispatchesAfter(n) :
              dispatches[d].built <=> (\A e \in DispatchesAfter(n) : d <= e)

C24_Witness ==
    \E d1, d2 \in 1..Len(dispatches) :
        /\ d1 < d2
        /\ ViaManager(d1) /\ ViaManager(d2)
        /\ dispatches[d1].editsAtCall = dispatches[d2].editsAtCall
        /\ dispatches[d1].factoryCalls = <<[f |-> "fC", args |-> <<>>]>>
        /\ dispatches[d2].factoryCalls = <<>>
        /\ "C" \in {Wrapped(dispatches[d2].handler)[i] :
                        i \in 1..Len(Wrapped(dispatches[d2].handler))}

RECURSIVE Terminal(_)
\* The link of a chain that has no next.
Terminal(handler) == IF handler.kind = "interceptor" THEN Terminal(handler.next) ELSE handler

\* C26 as claimed: the chain every handle(T, req) dispatches through ends in the
\* transport T passed to that call, and a dispatch whose last invoked link has no
\* next invoked T.
C26_TerminalIsPassedTransport ==
    \A d \in 1..Len(dispatches) :
        LET dp == dispatches[d]
        IN  ViaManager(d) =>
              /\ Terminal(dp.handler) = AdapterHandler(dp.adapter)
              /\ dp.next = None => dp.log[Len(dp.log)].h = dp.adapter

\* C28: a push onto the array that was passed to the constructor (by its caller, or
\* by HttpClientBuilder.addInterceptors after build) changes neither the registered
\* list nor the cached chain, and the registered list changes only in a step that is
\* an add, remove or removeByIndex call.
C28_ListOwnedByManager ==
    [][/\ (\E i \in InterceptorLikes : PushPassed(i)) =>
             (interceptorList' = interceptorList /\ chain' = chain)
       /\ interceptorList' # interceptorList => edits' = edits + 1]_vars

C28_Witness ==
    \E d1, d2 \in 1..Len(dispatches) :
        /\ d1 < d2
        /\ edits = 0
        /\ dispatches[d1].passedAtCall = <<"A">>
        /\ dispatches[d2].passedAtCall = <<"A", "A">>
        /\ dispatches[d2].regAtCall = <<"A">>
        /\ Wrapped(dispatches[d2].handler) = <<"A">>
        /\ dispatches[d2].log[1].h = "A"
====
